---- MODULE Spec2Model ----
(***************************************************************************)
(* Model of src/scripts/utils/map.js: the Map class wrapping a Leaflet map. *)
(*                                                                         *)
(* Coordinates are pairs <<lat, lng>> in micro-degrees, so that the        *)
(* default coordinate [-6.2, 106.816666] is a pair of integers.            *)
(* A JavaScript object whose keys matter (#baseLayers, #overlays, the      *)
(* lists a layers control keeps) is a sequence of [name, layer] entries in *)
(* insertion order.  Leaflet itself is modelled by what the calls made in  *)
(* map.js do to the map handle and to the layers control.                  *)
(***************************************************************************)
EXTENDS Integers, Sequences, FiniteSets, TLC

VARIABLES
    pc,             \* "idle" | "awaiting" (build suspended in await) | "ready"
    options,        \* the options object handed to Map.build
    geoAvailable,   \* "geolocation" in navigator
    positionCalls,  \* calls of Map.getCurrentPosition made so far
    hostQueries,    \* calls of navigator.geolocation.getCurrentPosition so far
    ctorOptions,    \* the options object build handed to the constructor
    zoom,           \* #zoom
    mapTilerKey,    \* #mapTilerKey
    baseLayers,     \* #baseLayers
    overlays,       \* #overlays
    layerControl,   \* #layerControl
    map,            \* #map: the Leaflet map handle
    controlsMade,   \* control.layers(...) calls so far (identity of a control)
    markersMade,    \* marker(...) calls so far
    last            \* the last operation, its arguments, its outcome and the state before it

vars == <<pc, options, geoAvailable, positionCalls, hostQueries, ctorOptions, zoom,
          mapTilerKey, baseLayers, overlays, layerControl, map, controlsMade,
          markersMade, last>>

--------------------------------------------------------------------------
\* Bounds of the model.

MaxMarkers == 2
MaxListed == 3
MaxControls == 3

--------------------------------------------------------------------------
\* Program constants.

DefaultZoom == 5
DefaultKey == "DgAqexwFefbHfJBEtOke"
jakartaCoordinate == <<-6200000, 106816666>>

--------------------------------------------------------------------------
\* JavaScript values that reach the typeof / truthiness / `in` tests of map.js.
\* tag is the value's type with null kept apart; prim is the text of a string or
\* boolean, num the value of a number, props the own property names of an
\* object and content its `content`.

JsUndefined == [tag |-> "undefined", prim |-> "", num |-> 0, props |-> {}, content |-> ""]
JsNull == [tag |-> "null", prim |-> "", num |-> 0, props |-> {}, content |-> ""]
JsString(s) == [tag |-> "string", prim |-> s, num |-> 0, props |-> {}, content |-> ""]
JsNumber(n) == [tag |-> "number", prim |-> "", num |-> n, props |-> {}, content |-> ""]
JsBoolean(b) == [tag |-> "boolean", prim |-> IF b THEN "true" ELSE "false", num |-> 0,
                 props |-> {}, content |-> ""]
JsObject(ps, c) == [tag |-> "object", prim |-> "", num |-> 0, props |-> ps, content |-> c]

\* typeof v
TypeOf(v) == IF v.tag = "null" THEN "object" ELSE v.tag

\* ToBoolean(v), as `if (v)` and `!v` apply it
Truthy(v) ==
    CASE v.tag = "undefined" -> FALSE
      [] v.tag = "null" -> FALSE
      [] v.tag = "boolean" -> v.prim = "true"
      [] v.tag = "number" -> v.num # 0
      [] v.tag = "string" -> v.prim # ""
      [] OTHER -> TRUE

\* A default parameter value applies exactly when the argument is undefined.
DefaultParam(v, d) == IF v.tag = "undefined" THEN d ELSE v

--------------------------------------------------------------------------
\* An option of the options object: has says whether the key is in the object.

Absent(v) == [has |-> FALSE, v |-> v]
Given(v) == [has |-> TRUE, v |-> v]

\* A coordinate is <<lat, lng>>; <<>> stands for a falsy center (null).
NullCenter == <<>>
Coordinates == {<<10000000, 20000000>>, <<-33000000, 151000000>>}

Layer(id) == [style |-> id, path |-> "", key |-> ""]
CallerLayer == Layer("custom")

BuildOptions ==
    [center : {Absent(NullCenter), Given(NullCenter), Given(<<10000000, 20000000>>)},
     locate : {Absent(FALSE), Given(FALSE), Given(TRUE)},
     zoom : {Absent(0), Given(0), Given(7)},
     mapTilerKey : {Absent(""), Given(""), Given("K2")},
     layers : {Absent(<<>>), Given(<<CallerLayer>>)}]

\* {...options, center: c}
WithCenter(opts, c) == [opts EXCEPT !.center = Given(c)]

--------------------------------------------------------------------------
\* Leaflet primitives used by the constructor.

\* latLng([a, b])
latLng(c) == [lat |-> c[1], lng |-> c[2]]

\* The map handle before createMap ran (#map = null).
NullMap == [made |-> FALSE, center |-> [lat |-> 0, lng |-> 0], zoom |-> 0,
            layers |-> {}, markers |-> <<>>, created |-> [zoom |-> 0, layers |-> <<>>]]

\* #layerControl = null
NullControl == [id |-> 0, base |-> <<>>, listed |-> <<>>, onMap |-> FALSE]

Range(s) == {s[i] : i \in 1..Len(s)}

\* #createMapTilerLayer(style) with #mapTilerKey = key
createMapTilerLayer(style, key) ==
    CASE style = "satellite" ->
           [style |-> style, path |-> "tiles/satellite/{z}/{x}/{y}.jpg", key |-> key]
      [] style = "hybrid" ->
           [style |-> style,
            path |-> "tiles/satellite/{z}/{x}/{y}.jpg+maps/streets-v2/overlay/{z}/{x}/{y}.png",
            key |-> key]
      [] style = "streets" ->
           [style |-> style, path |-> "maps/streets-v2/{z}/{x}/{y}.png", key |-> key]
      [] style = "basic" ->
           [style |-> style, path |-> "maps/basic-v2/{z}/{x}/{y}.png", key |-> key]
      [] style = "toner" ->
           [style |-> style, path |-> "maps/toner-v2/{z}/{x}/{y}.png", key |-> key]
      [] style = "dark" ->
           [style |-> style, path |-> "maps/dark-v2/{z}/{x}/{y}.png", key |-> key]
      [] OTHER ->
           [style |-> style, path |-> "maps/{style}/{z}/{x}/{y}.png", key |-> key]

osmLayer == [style |-> "osm", path |-> "tile.openstreetmap.org/{z}/{x}/{y}.png", key |-> ""]

\* control.layers(base, over): the control copies the entries of both objects.
controlLayers(id, base, over) == [id |-> id, base |-> base, listed |-> over, onMap |-> FALSE]

\* control.addTo(map) / control.remove()
addTo(ctl) == [ctl EXCEPT !.onMap = TRUE]

--------------------------------------------------------------------------
\* constructor(selector, options)

\* this.#zoom = options.zoom ?? this.#zoom
ResolveZoom(opts) == IF opts.zoom.has THEN opts.zoom.v ELSE DefaultZoom

\* if (options.mapTilerKey) this.#mapTilerKey = options.mapTilerKey
ResolveKey(opts) ==
    IF opts.mapTilerKey.has /\ opts.mapTilerKey.v # "" THEN opts.mapTilerKey.v ELSE DefaultKey

\* const defaultLayer = this.#mapTilerKey ? streetsLayer : osmLayer
DefaultLayer(key) == IF key # "" THEN createMapTilerLayer("streets", key) ELSE osmLayer

\* BaseLayersFor with the OpenStreetMap layer listed beside the six styles.
BaseLayersWithOsm(key) ==
    << [name |-> "OpenStreetMap", layer |-> osmLayer],
       [name |-> "Streets", layer |-> createMapTilerLayer("streets", key)],
       [name |-> "Satelit", layer |-> createMapTilerLayer("satellite", key)],
       [name |-> "Hybrid", layer |-> createMapTilerLayer("hybrid", key)],
       [name |-> "Basic", layer |-> createMapTilerLayer("basic", key)],
       [name |-> "Toner", layer |-> createMapTilerLayer("toner", key)],
       [name |-> "Mode Gelap", layer |-> createMapTilerLayer("dark", key)] >>

\* this.#baseLayers = {...six...}; if (!this.#mapTilerKey) this.#baseLayers = {OpenStreetMap}
BaseLayersFor(key) ==
    IF key # ""
    THEN << [name |-> "Streets", layer |-> createMapTilerLayer("streets", key)],
            [name |-> "Satelit", layer |-> createMapTilerLayer("satellite", key)],
            [name |-> "Hybrid", layer |-> createMapTilerLayer("hybrid", key)],
            [name |-> "Basic", layer |-> createMapTilerLayer("basic", key)],
            [name |-> "Toner", layer |-> createMapTilerLayer("toner", key)],
            [name |-> "Mode Gelap", layer |-> createMapTilerLayer("dark", key)] >>
    ELSE << [name |-> "OpenStreetMap", layer |-> osmLayer] >>

\* MapOptions with the caller's options spread first, so that the defaults win.
MapOptionsDefaultsLast(opts) ==
    [zoom |-> ResolveZoom(opts), layers |-> <<DefaultLayer(ResolveKey(opts))>>]

\* {zoom: this.#zoom, scrollWheelZoom: true, layers: [defaultLayer], ...options}
MapOptions(opts) ==
    [zoom |-> IF opts.zoom.has THEN opts.zoom.v ELSE ResolveZoom(opts),
     layers |-> IF opts.layers.has THEN opts.layers.v
                ELSE <<DefaultLayer(ResolveKey(opts))>>]

\* createMap(element, mapOptions): the view is set from center and zoom, and
\* every layer of the list is added to the map.
createMap(opts) ==
    [made |-> TRUE, center |-> latLng(opts.center.v), zoom |-> MapOptions(opts).zoom,
     layers |-> Range(MapOptions(opts).layers), markers |-> <<>>,
     created |-> MapOptions(opts)]

\* The instance new Map(selector, opts) yields.
NewMap(opts) ==
    [zoom |-> ResolveZoom(opts),
     mapTilerKey |-> ResolveKey(opts),
     baseLayers |-> BaseLayersFor(ResolveKey(opts)),
     overlays |-> <<>>,
     map |-> createMap(opts),
     layerControl |-> addTo(controlLayers(1, BaseLayersFor(ResolveKey(opts)), <<>>))]

NoOp == [op |-> "none", err |-> "", args |-> <<>>, before |-> <<>>, ret |-> <<>>]

Construct(opts) ==
    /\ ctorOptions' = opts
    /\ zoom' = NewMap(opts).zoom
    /\ mapTilerKey' = NewMap(opts).mapTilerKey
    /\ baseLayers' = NewMap(opts).baseLayers
    /\ overlays' = NewMap(opts).overlays
    /\ map' = NewMap(opts).map
    /\ layerControl' = NewMap(opts).layerControl
    /\ controlsMade' = 1
    /\ pc' = "ready"
    /\ UNCHANGED <<options, geoAvailable, markersMade>>

--------------------------------------------------------------------------
\* static async build(selector, options)

\* "center" in options && options.center
HasUsableCenter(opts) == opts.center.has /\ opts.center.v # NullCenter

\* "locate" in options && options.locate
WantsLocate(opts) == opts.locate.has /\ opts.locate.v

BuildWithCenter ==
    /\ pc = "idle"
    /\ HasUsableCenter(options)
    /\ Construct(options)
    /\ last' = [NoOp EXCEPT !.op = "build", !.args = "direct"]
    /\ UNCHANGED <<positionCalls, hostQueries>>

\* Map.getCurrentPosition(): rejects at once when geolocation is unsupported,
\* else hands resolve and reject to the host's one-shot query.
BuildLocate ==
    /\ pc = "idle"
    /\ ~HasUsableCenter(options)
    /\ WantsLocate(options)
    /\ positionCalls' = positionCalls + 1
    /\ hostQueries' = IF geoAvailable THEN hostQueries + 1 ELSE hostQueries
    /\ pc' = "awaiting"
    /\ last' = [NoOp EXCEPT !.op = "getCurrentPosition"]
    /\ UNCHANGED <<options, geoAvailable, ctorOptions, zoom, mapTilerKey, baseLayers,
                   overlays, layerControl, map, controlsMade, markersMade>>

\* A GeolocationPosition the host can report.
Position(lat, lng) == [coords |-> [latitude |-> lat, longitude |-> lng]]
Positions == {Position(c[1], c[2]) : c \in Coordinates}

\* GeoSuccess with the coordinate built as [longitude, latitude].
GeoSuccessSwapped(pos) ==
    /\ pc = "awaiting"
    /\ geoAvailable
    /\ Construct(WithCenter(options, <<pos.coords.longitude, pos.coords.latitude>>))
    /\ last' = [NoOp EXCEPT !.op = "build", !.args = "located", !.ret = pos]
    /\ UNCHANGED <<positionCalls, hostQueries>>

\* The host reports a position: the await yields it.
GeoSuccess(pos) ==
    /\ pc = "awaiting"
    /\ geoAvailable
    /\ Construct(WithCenter(options, <<pos.coords.latitude, pos.coords.longitude>>))
    /\ last' = [NoOp EXCEPT !.op = "build", !.args = "located", !.ret = pos]
    /\ UNCHANGED <<positionCalls, hostQueries>>

GeoErrors == {"PERMISSION_DENIED", "POSITION_UNAVAILABLE", "TIMEOUT"}

\* GeoFailure without the try/catch: the rejection reaches build's caller.
GeoFailureUncaught(reason) ==
    /\ pc = "awaiting"
    /\ IF geoAvailable THEN reason \in GeoErrors ELSE reason = "Geolocation API unsupported"
    /\ pc' = "rejected"
    /\ last' = [NoOp EXCEPT !.op = "build", !.args = "rejected", !.err = reason]
    /\ UNCHANGED <<options, geoAvailable, positionCalls, hostQueries, ctorOptions, zoom,
                   mapTilerKey, baseLayers, overlays, layerControl, map, controlsMade,
                   markersMade>>

\* The host calls reject, or the promise was rejected as unsupported: catch.
GeoFailure(reason) ==
    /\ pc = "awaiting"
    /\ IF geoAvailable THEN reason \in GeoErrors ELSE reason = "Geolocation API unsupported"
    /\ Construct(WithCenter(options, jakartaCoordinate))
    /\ last' = [NoOp EXCEPT !.op = "build", !.args = "caught", !.err = reason]
    /\ UNCHANGED <<positionCalls, hostQueries>>

BuildDefault ==
    /\ pc = "idle"
    /\ ~HasUsableCenter(options)
    /\ ~WantsLocate(options)
    /\ Construct(WithCenter(options, jakartaCoordinate))
    /\ last' = [NoOp EXCEPT !.op = "build", !.args = "direct"]
    /\ UNCHANGED <<positionCalls, hostQueries>>

--------------------------------------------------------------------------
\* changeCamera(coordinate, zoomLevel = null) and getCenter()

\* map.setView(center, z)
setView(m, center, z) == [m EXCEPT !.center = center, !.zoom = z]

\* The zoom changeCamera hands to setView: if (!zoomLevel) this.#zoom else zoomLevel
CameraZoom(zoomLevel) ==
    IF ~Truthy(DefaultParam(zoomLevel, JsNull)) THEN zoom ELSE zoomLevel.num

changeCamera(coordinate, zoomLevel) ==
    /\ pc = "ready"
    /\ map' = setView(map, latLng(coordinate), CameraZoom(zoomLevel))
    /\ last' = [NoOp EXCEPT !.op = "changeCamera",
                            !.args = [coordinate |-> coordinate, zoomLevel |-> zoomLevel]]
    /\ UNCHANGED <<pc, options, geoAvailable, positionCalls, hostQueries, ctorOptions,
                   zoom, mapTilerKey, baseLayers, overlays, layerControl, controlsMade,
                   markersMade>>

\* getCenter(): { latitude: lat, longitude: lng } of this.#map.getCenter()
getCenter == [latitude |-> map.center.lat, longitude |-> map.center.lng]

--------------------------------------------------------------------------
\* createIcon(options = {}) and addMarker(coordinates, markerOptions = {}, popupOptions = null)

\* icon({...Icon.Default.prototype.options, iconUrl: markerIcon, ..., ...options})
createIcon(opts) == IF "iconUrl" \in opts.props THEN "caller-icon" ELSE "marker-icon.png"

MarkerOptionsError == "markerOptions must be an object"
PopupOptionsError == "popupOptions must be an object"
PopupContentError == "popupOptions must include content property"

\* marker(coordinates, {icon: this.createIcon(), ...markerOptions})
marker(id, coordinates, mo) ==
    [id |-> id, latlng |-> latLng(coordinates),
     icon |-> IF "icon" \in mo.props THEN "caller-icon" ELSE createIcon(JsObject({}, "")),
     popup |-> [bound |-> FALSE, content |-> ""]]

\* newMarker.bindPopup(popup({content: popupOptions.content}))
bindPopup(mk, po) == [mk EXCEPT !.popup = [bound |-> TRUE, content |-> po.content]]

\* The error addMarker throws for these arguments, "" when it throws none.
addMarkerError(mo, po) ==
    IF TypeOf(mo) # "object" THEN MarkerOptionsError
    ELSE IF ~Truthy(po) THEN ""
    ELSE IF TypeOf(po) # "object" THEN PopupOptionsError
    ELSE IF "content" \notin po.props THEN PopupContentError
    ELSE ""

\* The marker addMarker builds once markerOptions passed its test.
newMarker(coordinates, mo, po) ==
    IF Truthy(po) /\ addMarkerError(mo, po) = ""
    THEN bindPopup(marker(markersMade + 1, coordinates, mo), po)
    ELSE marker(markersMade + 1, coordinates, mo)

addMarker(coordinates, markerOptions, popupOptions) ==
    LET mo == DefaultParam(markerOptions, JsObject({}, ""))
        po == DefaultParam(popupOptions, JsNull)
        err == addMarkerError(mo, po)
    IN  /\ pc = "ready"
        /\ markersMade < MaxMarkers
        /\ markersMade' = IF err = MarkerOptionsError THEN markersMade ELSE markersMade + 1
        /\ map' = IF err = "" 
                  THEN [map EXCEPT !.markers = Append(@, newMarker(coordinates, mo, po))]
                  ELSE map
        /\ last' = [op |-> "addMarker", err |-> err,
                    args |-> [coordinates |-> coordinates, markerOptions |-> markerOptions,
                              popupOptions |-> popupOptions],
                    before |-> [markers |-> map.markers, markersMade |-> markersMade],
                    ret |-> IF err = "" THEN <<newMarker(coordinates, mo, po)>> ELSE <<>>]
        /\ UNCHANGED <<pc, options, geoAvailable, positionCalls, hostQueries, ctorOptions,
                       zoom, mapTilerKey, baseLayers, overlays, layerControl, controlsMade>>

--------------------------------------------------------------------------
\* addOverlayLayer(name, layer) and removeOverlayLayer(name)

\* Property names every plain object inherits from Object.prototype.
InheritedNames == {"constructor"}

OwnNames(obj) == {obj[i].name : i \in 1..Len(obj)}

IndexOf(obj, name) == CHOOSE i \in 1..Len(obj) : obj[i].name = name

\* obj[name] = layer: an existing key keeps its place, a new key goes last.
PutProperty(obj, name, layer) ==
    IF name \in OwnNames(obj)
    THEN [obj EXCEPT ![IndexOf(obj, name)] = [name |-> name, layer |-> layer]]
    ELSE Append(obj, [name |-> name, layer |-> layer])

\* delete obj[name]
DeleteProperty(obj, name) ==
    IF name \in OwnNames(obj)
    THEN [i \in 1..(Len(obj) - 1) |->
            IF i < IndexOf(obj, name) THEN obj[i] ELSE obj[i + 1]]
    ELSE obj

\* Whether `if (obj[name])` passes: an own layer, or a member inherited from
\* Object.prototype (a function: truthy).
TruthyProperty(obj, name) == name \in OwnNames(obj) \/ name \in InheritedNames

\* removeLayer that leaves the layer on the map.
removeLayerSkipped(m, name) == m

\* map.removeLayer(x): a value the map does not hold is left alone.
removeLayer(m, name) ==
    IF name \in OwnNames(overlays)
    THEN [m EXCEPT !.layers = @ \ {overlays[IndexOf(overlays, name)].layer}]
    ELSE m

\* layerControl.addOverlay(layer, name): one more entry in the control's list.
addOverlay(ctl, layer, name) ==
    [ctl EXCEPT !.listed = Append(@, [name |-> name, layer |-> layer])]

addOverlayLayer(name, layer) ==
    /\ pc = "ready"
    /\ Len(layerControl.listed) < MaxListed
    /\ overlays' = PutProperty(overlays, name, layer)
    /\ layerControl' = addOverlay(layerControl, layer, name)
    /\ last' = [NoOp EXCEPT !.op = "addOverlayLayer",
                            !.args = [name |-> name, layer |-> layer],
                            !.ret = <<layer>>]
    /\ UNCHANGED <<pc, options, geoAvailable, positionCalls, hostQueries, ctorOptions,
                   zoom, mapTilerKey, baseLayers, map, controlsMade, markersMade>>

removeOverlayLayer(name) ==
    /\ pc = "ready"
    /\ TruthyProperty(overlays, name) => controlsMade < MaxControls
    /\ IF TruthyProperty(overlays, name)
       THEN /\ map' = removeLayer(map, name)
            /\ overlays' = DeleteProperty(overlays, name)
            /\ layerControl' =
                 addTo(controlLayers(controlsMade + 1, baseLayers,
                                     DeleteProperty(overlays, name)))
            /\ controlsMade' = controlsMade + 1
       ELSE UNCHANGED <<map, overlays, layerControl, controlsMade>>
    /\ last' = [op |-> "removeOverlayLayer", err |-> "",
                args |-> [name |-> name],
                before |-> IF name \in OwnNames(overlays)
                           THEN [wasKey |-> TRUE,
                                 layer |-> overlays[IndexOf(overlays, name)].layer,
                                 onMap |-> overlays[IndexOf(overlays, name)].layer
                                             \in map.layers]
                           ELSE [wasKey |-> FALSE, overlays |-> overlays,
                                 layers |-> map.layers, baseLayers |-> baseLayers,
                                 layerControl |-> layerControl],
                ret |-> <<>>]
    /\ UNCHANGED <<pc, options, geoAvailable, positionCalls, hostQueries, ctorOptions,
                   zoom, mapTilerKey, baseLayers, markersMade>>

\* The user ticks or unticks the i-th overlay the control lists: the control
\* adds the layer to the map or removes it.
ToggleOverlay(i) ==
    /\ pc = "ready"
    /\ i \in 1..Len(layerControl.listed)
    /\ map' = [map EXCEPT !.layers =
                 IF layerControl.listed[i].layer \in @
                 THEN @ \ {layerControl.listed[i].layer}
                 ELSE @ \cup {layerControl.listed[i].layer}]
    /\ last' = [NoOp EXCEPT !.op = "toggle", !.args = [name |-> layerControl.listed[i].name]]
    /\ UNCHANGED <<pc, options, geoAvailable, positionCalls, hostQueries, ctorOptions,
                   zoom, mapTilerKey, baseLayers, overlays, layerControl, controlsMade,
                   markersMade>>

\* The user picks the i-th base layer of the control: the control adds it to
\* the map and removes the other base layers it lists.
SelectBaseLayer(i) ==
    /\ pc = "ready"
    /\ i \in 1..Len(layerControl.base)
    /\ map' = [map EXCEPT !.layers =
                 (@ \ {layerControl.base[j].layer : j \in 1..Len(layerControl.base)})
                    \cup {layerControl.base[i].layer}]
    /\ last' = [NoOp EXCEPT !.op = "select", !.args = [name |-> layerControl.base[i].name]]
    /\ UNCHANGED <<pc, options, geoAvailable, positionCalls, hostQueries, ctorOptions,
                   zoom, mapTilerKey, baseLayers, overlays, layerControl, controlsMade,
                   markersMade>>

--------------------------------------------------------------------------

InitIdle(optionSet) ==
    /\ pc = "idle"
    /\ options \in optionSet
    /\ geoAvailable \in BOOLEAN
    /\ positionCalls = 0
    /\ hostQueries = 0
    /\ ctorOptions = [center |-> Absent(NullCenter), locate |-> Absent(FALSE),
                      zoom |-> Absent(0), mapTilerKey |-> Absent(""),
                      layers |-> Absent(<<>>)]
    /\ zoom = DefaultZoom
    /\ mapTilerKey = DefaultKey
    /\ baseLayers = <<>>
    /\ overlays = <<>>
    /\ layerControl = NullControl
    /\ map = NullMap
    /\ controlsMade = 0
    /\ markersMade = 0
    /\ last = NoOp

Init == InitIdle(BuildOptions)

Build ==
    \/ BuildWithCenter
    \/ BuildLocate
    \/ \E pos \in Positions : GeoSuccess(pos)
    \/ \E reason \in GeoErrors \cup {"Geolocation API unsupported"} : GeoFailure(reason)
    \/ BuildDefault

Next == Build

Spec == Init /\ [][Next]_vars

--------------------------------------------------------------------------
\* An instance as Map.build(selector, opts) leaves it when opts asks for no
\* geolocation.

InitBuilt(optionSet) ==
    /\ pc = "ready"
    /\ options \in optionSet
    /\ geoAvailable \in BOOLEAN
    /\ positionCalls = 0
    /\ hostQueries = 0
    /\ ctorOptions = IF HasUsableCenter(options) THEN options
                     ELSE WithCenter(options, jakartaCoordinate)
    /\ zoom = NewMap(ctorOptions).zoom
    /\ mapTilerKey = NewMap(ctorOptions).mapTilerKey
    /\ baseLayers = NewMap(ctorOptions).baseLayers
    /\ overlays = NewMap(ctorOptions).overlays
    /\ layerControl = NewMap(ctorOptions).layerControl
    /\ map = NewMap(ctorOptions).map
    /\ controlsMade = 1
    /\ markersMade = 0
    /\ last = [NoOp EXCEPT !.op = "build", !.args = "direct"]

\* Markers and camera.

MarkerBuildOptions ==
    [center : {Absent(NullCenter)},
     locate : {Absent(FALSE)},
     zoom : {Absent(0), Given(7)},
     mapTilerKey : {Absent("")},
     layers : {Absent(<<>>)}]

MarkerOptionValues ==
    {JsUndefined, JsNull, JsObject({}, ""), JsObject({"icon"}, ""),
     JsString("not-an-object"), JsNumber(1)}

PopupOptionValues ==
    {JsUndefined, JsNull, JsObject({}, ""), JsObject({"content"}, "x"),
     JsString("not-an-object"), JsString(""), JsNumber(0), JsBoolean(FALSE)}

ZoomLevelValues == {JsUndefined, JsNull, JsNumber(0), JsNumber(12)}

InitMarker == InitBuilt(MarkerBuildOptions) /\ geoAvailable

NextMarker ==
    \/ \E c \in Coordinates, z \in ZoomLevelValues : changeCamera(c, z)
    \/ \E mo \in MarkerOptionValues, po \in PopupOptionValues :
          addMarker(<<10000000, 20000000>>, mo, po)

SpecMarker == InitMarker /\ [][NextMarker]_vars

\* Overlays.

OverlayBuildOptions ==
    [center : {Absent(NullCenter)},
     locate : {Absent(FALSE)},
     zoom : {Absent(0)},
     mapTilerKey : {Absent(""), Given(""), Given("K2")},
     layers : {Absent(<<>>), Given(<<CallerLayer>>)}]

OverlayNames == {"A", "B"}
OverlayLayers == {Layer("L1"), Layer("L2")}

InitOverlay == InitBuilt(OverlayBuildOptions) /\ geoAvailable

NextOverlay ==
    \/ \E n \in OverlayNames, l \in OverlayLayers : addOverlayLayer(n, l)
    \/ \E n \in OverlayNames \cup InheritedNames : removeOverlayLayer(n)
    \/ \E i \in 1..MaxListed : ToggleOverlay(i)
    \/ \E i \in 1..2 : SelectBaseLayer(i)

SpecOverlay == InitOverlay /\ [][NextOverlay]_vars

--------------------------------------------------------------------------
\* Properties.

GeoFailureReasons == GeoErrors \cup {"Geolocation API unsupported"}

\* C1: when build has no usable center, locate is true and the geolocation
\* query fails (unsupported, denied, unavailable, timeout), build resolves
\* with an instance whose center is the default coordinate; it never rejects.
C1_GeoFailureFallsBack ==
    (last.op = "build" /\ last.err \in GeoFailureReasons) =>
        /\ pc = "ready"
        /\ ~(options.center.has /\ options.center.v # NullCenter)
        /\ options.locate.has /\ options.locate.v
        /\ ctorOptions.center = Given(<<-6200000, 106816666>>)
        /\ map.made
        /\ map.center = [lat |-> -6200000, lng |-> 106816666]

C1_Witness ==
    /\ pc = "ready"
    /\ ~geoAvailable
    /\ last.op = "build"
    /\ last.err = "Geolocation API unsupported"
    /\ map.center = [lat |-> -6200000, lng |-> 106816666]

\* C2: the center build hands to the constructor: a supplied center is used
\* unchanged with no geolocation query; else with locate true exactly one
\* query is made (one call of Map.getCurrentPosition, at most one host
\* query, none when geolocation is unsupported) and on success the center is
\* [latitude, longitude] of the reported position; else the center is the
\* default coordinate with no query.
C2_CenterDecision ==
    /\ pc = "awaiting" => positionCalls = 1
    /\ pc = "ready" =>
         IF options.center.has /\ options.center.v # NullCenter
         THEN /\ ctorOptions = options
              /\ positionCalls = 0
              /\ hostQueries = 0
         ELSE IF options.locate.has /\ options.locate.v
         THEN /\ positionCalls = 1
              /\ hostQueries = IF geoAvailable THEN 1 ELSE 0
              /\ last.args = "located" =>
                   ctorOptions.center =
                     Given(<<last.ret.coords.latitude, last.ret.coords.longitude>>)
         ELSE /\ ctorOptions.center = Given(<<-6200000, 106816666>>)
              /\ positionCalls = 0
              /\ hostQueries = 0

C2_Witness ==
    /\ pc = "ready"
    /\ last.args = "located"
    /\ positionCalls = 1
    /\ hostQueries = 1
    /\ ctorOptions.center = Given(<<-33000000, 151000000>>)
    /\ map.center = [lat |-> -33000000, lng |-> 151000000]

SixNames == {"Streets", "Satelit", "Hybrid", "Basic", "Toner", "Mode Gelap"}

StreetsOf(key) == [style |-> "streets", path |-> "maps/streets-v2/{z}/{x}/{y}.png", key |-> key]

\* C3 as stated: the base-layer mapping has the one OpenStreetMap entry when
\* no key is in effect and the six named entries otherwise, and the map is
\* created with the streets layer (keyed) or the OpenStreetMap layer (keyless)
\* as its active layer.
C3_AsStated ==
    pc = "ready" =>
        IF mapTilerKey = ""
        THEN /\ Len(baseLayers) = 1
             /\ OwnNames(baseLayers) = {"OpenStreetMap"}
             /\ map.created.layers = <<osmLayer>>
        ELSE /\ Len(baseLayers) = 6
             /\ OwnNames(baseLayers) = SixNames
             /\ map.created.layers = <<StreetsOf(mapTilerKey)>>

\* C3 amended: as C3, except that the initially active layer is the streets
\* (or OpenStreetMap) layer only when the caller's configuration has no
\* layers entry of its own.
C3_BaseLayers ==
    pc = "ready" =>
        IF mapTilerKey = ""
        THEN /\ Len(baseLayers) = 1
             /\ OwnNames(baseLayers) = {"OpenStreetMap"}
             /\ ~ctorOptions.layers.has => map.created.layers = <<osmLayer>>
        ELSE /\ Len(baseLayers) = 6
             /\ OwnNames(baseLayers) = SixNames
             /\ ~ctorOptions.layers.has => map.created.layers = <<StreetsOf(mapTilerKey)>>

C3_Witness ==
    /\ last.op = "removeOverlayLayer"
    /\ last.before.wasKey
    /\ mapTilerKey = "K2"
    /\ ~ctorOptions.layers.has
    /\ Len(baseLayers) = 6
    /\ map.created.layers = <<StreetsOf("K2")>>

\* C4 as stated: addMarker fails with the invalid-argument error whenever
\* markerOptions is supplied and is not an options object, before any marker
\* is created, and the markers on the map are those of before the call.
C4_AsStated ==
    (last.op = "addMarker" /\ last.args.markerOptions.tag \notin {"undefined", "object"}) =>
        /\ last.err = MarkerOptionsError
        /\ markersMade = last.before.markersMade
        /\ map.markers = last.before.markers

\* C5 as stated: for every supplied popupOptions, a value that is no object
\* fails with the invalid-argument error, an object without content fails
\* with the missing-field error, no marker being added in either case, and an
\* object with content yields a marker on the map, returned, whose popup
\* carries that content.
C5_AsStated ==
    (/\ last.op = "addMarker"
     /\ last.args.markerOptions.tag \in {"undefined", "object"}
     /\ last.args.popupOptions.tag \notin {"undefined", "null"}) =>
        IF last.args.popupOptions.tag # "object"
        THEN last.err = PopupOptionsError /\ map.markers = last.before.markers
        ELSE IF "content" \notin last.args.popupOptions.props
        THEN last.err = PopupContentError /\ map.markers = last.before.markers
        ELSE /\ last.err = ""
             /\ Len(map.markers) = Len(last.before.markers) + 1
             /\ map.markers[Len(map.markers)] = last.ret[1]
             /\ last.ret[1].popup = [bound |-> TRUE,
                                     content |-> last.args.popupOptions.content]

\* C6 as stated: after changeCamera(coordinate, zoomLevel), getCenter() is
\* {latitude, longitude} of coordinate and the map's zoom is zoomLevel when a
\* level was provided (0 included), the instance's zoom otherwise.
C6_AsStated ==
    last.op = "changeCamera" =>
        /\ getCenter = [latitude |-> last.args.coordinate[1],
                        longitude |-> last.args.coordinate[2]]
        /\ map.zoom = IF last.args.zoomLevel.tag = "number"
                      THEN last.args.zoomLevel.num
                      ELSE zoom

\* C7: right after removeOverlayLayer(name), whatever calls came before, the
\* overlay mapping has no entry for name and the layer the mapping held under
\* name is not on the map.
C7_RemovedAndDetached ==
    last.op = "removeOverlayLayer" =>
        /\ \A i \in 1..Len(overlays) : overlays[i].name # last.args.name
        /\ last.before.wasKey => last.before.layer \notin map.layers

C7_Witness ==
    /\ last.op = "removeOverlayLayer"
    /\ last.before.wasKey
    /\ last.before.onMap
    /\ last.before.layer \notin map.layers
    /\ Len(overlays) > 0

\* C8 as stated: removeOverlayLayer(name) with a name that is no key of the
\* overlay mapping leaves the overlay mapping, the layers on the map, the
\* base-layer mapping and the layers control (the same control) as they were.
C8_AsStated ==
    (last.op = "removeOverlayLayer" /\ ~last.before.wasKey) =>
        /\ last.err = ""
        /\ overlays = last.before.overlays
        /\ map.layers = last.before.layers
        /\ baseLayers = last.before.baseLayers
        /\ layerControl = last.before.layerControl

\* C9 as stated: whatever the caller's configuration, the layer list the map
\* is created with contains the chosen default layer.
C9_AsStated ==
    pc = "ready" =>
        \E i \in 1..Len(map.created.layers) :
            map.created.layers[i] =
                IF mapTilerKey # "" THEN StreetsOf(mapTilerKey) ELSE osmLayer

\* C9 amended: the caller's configuration is merged last and overrides zoom
\* and layers: the map is created with the caller's layers entry when there
\* is one, and with the list of the default layer alone otherwise.
C9_CallerOverrides ==
    pc = "ready" =>
        /\ map.created.layers =
             IF ctorOptions.layers.has THEN ctorOptions.layers.v
             ELSE IF mapTilerKey # "" THEN <<StreetsOf(mapTilerKey)>> ELSE <<osmLayer>>
        /\ map.created.zoom = IF ctorOptions.zoom.has THEN ctorOptions.zoom.v ELSE 5
        /\ map.layers = {map.created.layers[i] : i \in 1..Len(map.created.layers)}

C9_Witness ==
    /\ pc = "ready"
    /\ ctorOptions.layers = Given(<<CallerLayer>>)
    /\ ctorOptions.zoom = Given(7)
    /\ map.created.layers = <<CallerLayer>>
    /\ map.created.zoom = 7

\* C10 as stated: the overlays the layers control lists are exactly the
\* (name, layer) pairs of the overlay mapping, each name listed once.
C10_AsStated ==
    pc = "ready" =>
        /\ Len(layerControl.listed) = Len(overlays)
        /\ Range(layerControl.listed) = Range(overlays)
        /\ \A i, j \in 1..Len(layerControl.listed) :
              layerControl.listed[i].name = layerControl.listed[j].name => i = j

====
